---- MODULE Spec2Model ----
(***************************************************************************)
(* A model of LookupIntentParser                                           *)
(* (src/snips_nlu/intent_parser/lookup_intent_parser.py): the training     *)
(* index built by fit, the two-key lookup of parse, and the get_intents /  *)
(* get_slots queries.  Texts and keys are strings; the tokenizer, the      *)
(* placeholder substitution and the result constructors, which live in    *)
(* other modules of the package, are modelled from their documented        *)
(* behaviour.                                                              *)
(***************************************************************************)
EXTENDS Integers, Sequences, FiniteSets, TLC

\* ------------------------------------------------------------------------
\* Bounds of the model
\* ------------------------------------------------------------------------

\* number of fit calls on one parser instance
MaxFits == 2

\* total number of utterances of one dataset
MaxUtterances == 3

\* number of intents of one dataset
MaxIntents == 2

\* ------------------------------------------------------------------------
\* Python values
\* ------------------------------------------------------------------------

\* the value None
PyNone == [type |-> "NoneType"]

PyStr(s) == [type |-> "str", value |-> s]

PyList(l) == [type |-> "list", value |-> l]

PyInt(n) == [type |-> "int", value |-> n]

Range(seq) == {seq[i] : i \in 1..Len(seq)}

\* the name of the None intent in a result
NoneName == "None"

\* dict.get on a missing key (an index entry is never an empty list)
NoVal == <<>>

EmptyDict == [k \in {} |-> NoVal]

DictGet(d, k) == IF k \in DOMAIN d THEN d[k] ELSE NoVal

DictSet(d, k, v) == [x \in (DOMAIN d) \cup {k} |-> IF x = k THEN v ELSE d[x]]

DictPop(d, k) == [x \in (DOMAIN d) \ {k} |-> d[x]]

\* ------------------------------------------------------------------------
\* Strings
\* ------------------------------------------------------------------------

LowerAlphabet == "abcdefghijklmnopqrstuvwxyz"

UpperAlphabet == "ABCDEFGHIJKLMNOPQRSTUVWXYZ"

CharAt(s, i) == SubSeq(s, i, i)

IndexIn(c, s) ==
    IF \E i \in 1..Len(s) : CharAt(s, i) = c
    THEN CHOOSE i \in 1..Len(s) : CharAt(s, i) = c
    ELSE 0

LowerChar(c) ==
    LET i == IndexIn(c, UpperAlphabet) IN
    IF i = 0 THEN c ELSE CharAt(LowerAlphabet, i)

UpperChar(c) ==
    LET i == IndexIn(c, LowerAlphabet) IN
    IF i = 0 THEN c ELSE CharAt(UpperAlphabet, i)

RECURSIVE Lower(_)
Lower(s) ==
    IF Len(s) = 0 THEN ""
    ELSE LowerChar(CharAt(s, 1)) \o Lower(SubSeq(s, 2, Len(s)))

RECURSIVE Upper(_)
Upper(s) ==
    IF Len(s) = 0 THEN ""
    ELSE UpperChar(CharAt(s, 1)) \o Upper(SubSeq(s, 2, Len(s)))

RECURSIVE Spaces(_)
Spaces(n) == IF n <= 0 THEN "" ELSE " " \o Spaces(n - 1)

\* "".join(seq)
RECURSIVE Join(_)
Join(seq) == IF seq = <<>> THEN "" ELSE Head(seq) \o Join(Tail(seq))

\* " ".join(seq)
RECURSIVE JoinSpace(_)
JoinSpace(seq) ==
    IF seq = <<>> THEN ""
    ELSE IF Len(seq) = 1 THEN Head(seq)
    ELSE Head(seq) \o " " \o JoinSpace(Tail(seq))

\* text[a:b] with 0 <= a, Python slice semantics
Slice(text, a, b) ==
    LET e == IF b > Len(text) THEN Len(text) ELSE b IN
    IF a >= e THEN "" ELSE SubSeq(text, a + 1, e)

\* ------------------------------------------------------------------------
\* Tokenizer and normalizer (snips_nlu.preprocessing, snips_nlu_utils)
\* ------------------------------------------------------------------------

IsSpace(c) == c = " "

IsWordChar(c) == IndexIn(c, LowerAlphabet) > 0 \/ IndexIn(c, UpperAlphabet) > 0

\* last index of the maximal run of word characters that starts at i
WordEnd(txt, i) ==
    CHOOSE j \in i..Len(txt) :
        /\ \A k \in i..j : IsWordChar(CharAt(txt, k))
        /\ (j = Len(txt) \/ ~IsWordChar(CharAt(txt, j + 1)))

\* tokens with offsets: a run of word characters is one token, any other
\* non-blank character is a token of its own
RECURSIVE TokenizeFrom(_, _)
TokenizeFrom(txt, i) ==
    IF i > Len(txt) THEN <<>>
    ELSE IF IsSpace(CharAt(txt, i)) THEN TokenizeFrom(txt, i + 1)
    ELSE IF IsWordChar(CharAt(txt, i))
         THEN LET j == WordEnd(txt, i) IN
              <<[value |-> SubSeq(txt, i, j), start |-> i - 1, end |-> j]>>
                  \o TokenizeFrom(txt, j + 1)
         ELSE <<[value |-> CharAt(txt, i), start |-> i - 1, end |-> i]>>
                  \o TokenizeFrom(txt, i + 1)

tokenize(txt) == TokenizeFrom(txt, 1)

tokenize_light(txt) ==
    LET toks == tokenize(txt) IN [i \in 1..Len(toks) |-> toks[i].value]

normalize(s) == Lower(s)

normalize_token(token) == normalize(token.value)

\* ------------------------------------------------------------------------
\* Inputs: datasets, texts and what the entity parsers detect in them
\* ------------------------------------------------------------------------

IntentNames == {"a", "b"}

SlotNames == {"a", "c"}

Literal(text) == [text |-> text]

SlotChunk(text, slot_name, entity) ==
    [text |-> text, slot_name |-> slot_name, entity |-> entity]

\* one utterance without slots, and one with a city slot per slot name
Utterances ==
    {[data |-> <<Literal("go the rome")>>]}
        \cup {[data |-> <<Literal("Go "), SlotChunk("rome", n, "city")>>] :
                 n \in SlotNames}

\* the sequences of k utterance lists that hold at most budget utterances,
\* every list at least one
RECURSIVE UtteranceSplits(_, _)
UtteranceSplits(k, budget) ==
    IF k = 0 THEN {<<>>}
    ELSE UNION {{<<u>> \o rest : u \in [1..n -> Utterances],
                                 rest \in UtteranceSplits(k - 1, budget - n)} :
                   n \in 1..(budget - (k - 1))}

\* the orders the intents of a dataset can come in
NameSeqs ==
    {ns \in UNION {[1..n -> IntentNames] : n \in 1..MaxIntents} :
        \A i, j \in 1..Len(ns) : i # j => ns[i] # ns[j]}

\* dataset[INTENTS] is a dict: the intents in iteration order, names distinct
IntentSeqs ==
    UNION {{[i \in 1..Len(ns) |-> [name |-> ns[i], utterances |-> us[i]]] :
               us \in UtteranceSplits(Len(ns), MaxUtterances)} :
              ns \in NameSeqs}

\* the datasets fit is called with: the city entity is declared, or no entity
Datasets ==
    {[language |-> "en", entities |-> e, intents |-> is] :
        e \in {{"city"}, {}}, is \in IntentSeqs}

Entity(text, kind, start, end) ==
    [entity_kind |-> kind, value |-> Slice(text, start, end),
     range |-> [start |-> start, end |-> end]]

Texts == {"Go rome", "go the rome", "go %city%"}

\* the concatenated output of the builtin and the custom entity parser
Detections(text) ==
    IF text = "Go rome"
    THEN {<<>>, <<Entity(text, "city", 3, 7)>>}
    ELSE IF text = "go the rome"
    THEN {<<>>, <<Entity(text, "city", 7, 11)>>,
          <<Entity(text, "city", 7, 11), Entity(text, "city", 3, 11)>>}
    ELSE {<<>>, <<Entity(text, "city", 4, 8)>>}

\* the stop words of the language resources
get_stop_words == {"the"}

StopWordSets == {{}, get_stop_words}

\* the intents argument of parse
IntentsArgs == {PyNone, PyStr("a"), PyList(<<"b">>)}

TopNArgs == {PyNone, PyInt(1)}

\* the intent argument of get_slots
IntentArgs == {PyNone, PyStr("a"), PyStr("z")}

\* ------------------------------------------------------------------------
\* Placeholders and entity substitution
\* ------------------------------------------------------------------------

_get_entity_name_placeholder(entity_label) ==
    "%" \o Upper(Join(tokenize_light(entity_label))) \o "%"


RangeLen(e) == e.range.end - e.range.start

ranges_overlap(e1, e2) ==
    e1.range.start < e2.range.end /\ e2.range.start < e1.range.end

\* entities sorted by ascending start offset (stable)
RECURSIVE InsertByStart(_, _)
InsertByStart(sorted, e) ==
    IF sorted = <<>> THEN <<e>>
    ELSE IF e.range.start < Head(sorted).range.start THEN <<e>> \o sorted
    ELSE <<Head(sorted)>> \o InsertByStart(Tail(sorted), e)

RECURSIVE SortByStart(_)
SortByStart(entities) ==
    IF entities = <<>> THEN <<>>
    ELSE InsertByStart(SortByStart(SubSeq(entities, 1, Len(entities) - 1)),
                       entities[Len(entities)])

\* entities by decreasing length, the earlier of two equal lengths first
RECURSIVE InsertByLength(_, _)
InsertByLength(sorted, e) ==
    IF sorted = <<>> THEN <<e>>
    ELSE IF RangeLen(e) > RangeLen(Head(sorted)) THEN <<e>> \o sorted
    ELSE <<Head(sorted)>> \o InsertByLength(Tail(sorted), e)

RECURSIVE SortByLength(_)
SortByLength(entities) ==
    IF entities = <<>> THEN <<>>
    ELSE InsertByLength(SortByLength(SubSeq(entities, 1, Len(entities) - 1)),
                        entities[Len(entities)])

RECURSIVE KeepNonOverlapping(_, _)
KeepNonOverlapping(kept, todo) ==
    IF todo = <<>> THEN kept
    ELSE IF \E i \in 1..Len(kept) : ranges_overlap(kept[i], Head(todo))
         THEN KeepNonOverlapping(kept, Tail(todo))
         ELSE KeepNonOverlapping(Append(kept, Head(todo)), Tail(todo))

\* the longer of two overlapping spans wins, the result is sorted by start
deduplicate_overlapping_entities(entities) ==
    SortByStart(KeepNonOverlapping(<<>>, SortByLength(entities)))

RECURSIVE ReplaceFrom(_, _, _)
ReplaceFrom(text, entities, current_ix) ==
    IF entities = <<>> THEN Slice(text, current_ix, Len(text))
    ELSE LET ent == Head(entities) IN
         Slice(text, current_ix, ent.range.start)
             \o _get_entity_name_placeholder(ent.entity_kind)
             \o ReplaceFrom(text, Tail(entities), ent.range.end)

\* the text with every entity span replaced by the placeholder of its kind
replace_entities_with_placeholders(text, entities) ==
    IF entities = <<>> THEN text
    ELSE ReplaceFrom(text, SortByStart(entities), 0)

\* ------------------------------------------------------------------------
\* Key derivation
\* ------------------------------------------------------------------------

\* as the loop of _preprocess_text, but stop words are kept
RECURSIVE PreprocessKeepingStopWords(_, _, _, _, _)
PreprocessKeepingStopWords(txt, tokens, current_idx, cleaned_string, stops) ==
    IF tokens = <<>>
    THEN cleaned_string \o Spaces(Len(txt) - current_idx)
    ELSE LET token == Head(tokens) IN
         PreprocessKeepingStopWords(txt, Tail(tokens), token.end,
             cleaned_string \o Spaces(token.start - current_idx) \o token.value,
             stops)

\* the loop of _preprocess_text over the tokens
RECURSIVE PreprocessFrom(_, _, _, _, _)
PreprocessFrom(txt, tokens, current_idx, cleaned_string, stops) ==
    IF tokens = <<>>
    THEN cleaned_string \o Spaces(Len(txt) - current_idx)
    ELSE LET token == Head(tokens)
             value == IF stops # {} /\ normalize_token(token) \in stops
                      THEN Spaces(Len(token.value))
                      ELSE token.value
         IN  PreprocessFrom(txt, Tail(tokens), token.end,
                 cleaned_string \o Spaces(token.start - current_idx) \o value,
                 stops)

_preprocess_text(txt, stops) ==
    PreprocessFrom(txt, tokenize(txt), 0, "", stops)

\* [t for t in tokens if normalize(t) not in stops]
RECURSIVE DropStopWords(_, _)
DropStopWords(tokens, stops) ==
    IF tokens = <<>> THEN <<>>
    ELSE IF normalize(Head(tokens)) \in stops
         THEN DropStopWords(Tail(tokens), stops)
         ELSE <<Head(tokens)>> \o DropStopWords(Tail(tokens), stops)

\* the key of a space-joined chunk sequence
NormalizedKey(joined, stops) ==
    Lower(Join(DropStopWords(tokenize_light(joined), stops)))

\* Key A of parse: the text after entity substitution
KeyA(text, all_entities, stops) ==
    LET processed_text == replace_entities_with_placeholders(text, all_entities)
        cleaned_processed_text == _preprocess_text(processed_text, stops)
    IN  Lower(Join(DropStopWords(tokenize_light(cleaned_processed_text), stops)))

\* Key B of parse: the text itself
KeyB(text, stops) ==
    Join(tokenize_light(Lower(_preprocess_text(text, stops))))

\* ------------------------------------------------------------------------
\* The keys of the strings of the model, computed once
\* ------------------------------------------------------------------------

\* the space-joined chunk sequence of an utterance all of whose entities
\* are declared
JoinedInput(utterance) ==
    JoinSpace([i \in 1..Len(utterance.data) |->
        IF "slot_name" \in DOMAIN utterance.data[i]
        THEN Lower(_get_entity_name_placeholder(utterance.data[i].entity))
        ELSE utterance.data[i].text])

\* a set as a sequence, in some order
RECURSIVE SetToSeq(_)
SetToSeq(S) ==
    IF S = {} THEN <<>>
    ELSE LET x == CHOOSE y \in S : TRUE IN <<x>> \o SetToSeq(S \ {x})

\* outputs[i] for the i with inputs[i] = input, computed when there is none
Cached(inputs, outputs, input, computed) ==
    IF \E i \in 1..Len(inputs) : inputs[i] = input
    THEN outputs[CHOOSE i \in 1..Len(inputs) : inputs[i] = input]
    ELSE computed

NormalizedKeyInputs ==
    SetToSeq({<<JoinedInput(u), w>> : u \in Utterances, w \in StopWordSets})

NormalizedKeys ==
    [i \in 1..Len(NormalizedKeyInputs) |->
        NormalizedKey(NormalizedKeyInputs[i][1], NormalizedKeyInputs[i][2])]

CachedNormalizedKey(joined, stops) ==
    Cached(NormalizedKeyInputs, NormalizedKeys, <<joined, stops>>,
           NormalizedKey(joined, stops))

KeyAInputs ==
    SetToSeq({<<text, deduplicate_overlapping_entities(entities), w>> :
                 text \in Texts, entities \in UNION {Detections(t) : t \in Texts},
                 w \in StopWordSets})

KeysA ==
    [i \in 1..Len(KeyAInputs) |->
        KeyA(KeyAInputs[i][1], KeyAInputs[i][2], KeyAInputs[i][3])]

CachedKeyA(text, all_entities, stops) ==
    Cached(KeyAInputs, KeysA, <<text, all_entities, stops>>,
           KeyA(text, all_entities, stops))

KeyBInputs == SetToSeq({<<text, w>> : text \in Texts, w \in StopWordSets})

KeysB ==
    [i \in 1..Len(KeyBInputs) |-> KeyB(KeyBInputs[i][1], KeyBInputs[i][2])]

CachedKeyB(text, stops) ==
    Cached(KeyBInputs, KeysB, <<text, stops>>, KeyB(text, stops))

EntityLabels == <<"city">>

Placeholders ==
    [i \in 1..Len(EntityLabels) |->
        _get_entity_name_placeholder(EntityLabels[i])]

CachedPlaceholder(entity_label) ==
    Cached(EntityLabels, Placeholders, entity_label,
           _get_entity_name_placeholder(entity_label))

LoweredPlaceholders ==
    [i \in 1..Len(Placeholders) |-> Lower(Placeholders[i])]

\* placeholder.lower()
CachedLower(placeholder) ==
    Cached(Placeholders, LoweredPlaceholders, placeholder, Lower(placeholder))

\* ------------------------------------------------------------------------
\* Results (snips_nlu.result) and errors
\* ------------------------------------------------------------------------

Raise(name) == [kind |-> "error", error |-> name]

intent_classification_result(intent_name, probability) ==
    [intentName |-> intent_name, probability |-> probability]

unresolved_slot(match_range, value, entity, slot_name) ==
    [range |-> [start |-> match_range[1], end |-> match_range[2]],
     value |-> value, entity |-> entity, slotName |-> slot_name]

parsing_result(input, intent, slots) ==
    [kind |-> "parsing_result", input |-> input, intent |-> intent, slots |-> slots]

empty_result(input, probability) ==
    parsing_result(input, intent_classification_result(NoneName, probability), <<>>)

\* ------------------------------------------------------------------------
\* Registries (get_intent_id, get_slot_id); ids count from 0
\* ------------------------------------------------------------------------

get_intent_id(self, intent_name) ==
    IF intent_name \in DOMAIN self._intents_mapping
    THEN [self |-> self, id |-> self._intents_mapping[intent_name]]
    ELSE [self |-> [self EXCEPT
                       !.intents_names = Append(@, intent_name),
                       !._slots_mapping =
                           DictSet(@, intent_name, Len(self.intents_names))],
          id |-> Len(self.intents_names)]

get_slot_id(self, slot_name) ==
    IF slot_name \in DOMAIN self._slots_mapping
    THEN [self |-> self, id |-> self._slots_mapping[slot_name]]
    ELSE [self |-> [self EXCEPT
                       !.slots_names = Append(@, slot_name),
                       !._slots_mapping =
                           DictSet(@, slot_name, Len(self.slots_names))],
          id |-> Len(self.slots_names)]

\* ------------------------------------------------------------------------
\* fit
\* ------------------------------------------------------------------------

\* {e: _get_entity_name_placeholder(e, language) for e in dataset[ENTITIES]}
_get_entity_placeholders(ds) ==
    [e \in ds.entities |-> CachedPlaceholder(e)]

\* the loop over the chunks of one utterance; error is "" unless a lookup
\* raised.  BuildSlotChunk is the branch of a slot chunk, r what get_slot_id
\* returned for it
RECURSIVE BuildChunks(_, _, _, _, _), BuildSlotChunk(_, _, _, _, _)
BuildChunks(self, chunks, input_, slots, entity_placeholders) ==
    IF chunks = <<>>
    THEN [self |-> self, input_ |-> input_, slots |-> slots, error |-> ""]
    ELSE IF "slot_name" \in DOMAIN Head(chunks)
    THEN BuildSlotChunk(get_slot_id(self, Head(chunks).slot_name), chunks,
                        input_, slots, entity_placeholders)
    ELSE BuildChunks(self, Tail(chunks), Append(input_, Head(chunks).text),
                     slots, entity_placeholders)

BuildSlotChunk(r, chunks, input_, slots, entity_placeholders) ==
    IF Head(chunks).entity \notin DOMAIN entity_placeholders
    THEN [self |-> r.self, input_ |-> input_, slots |-> slots,
          error |-> "KeyError"]
    ELSE BuildChunks(r.self, Tail(chunks),
             Append(input_, CachedLower(entity_placeholders[Head(chunks).entity])),
             Append(slots, r.id), entity_placeholders)

\* the pair returned for the chunks built as r
IoMapping(r, intent_id) ==
    IF r.error # ""
    THEN [self |-> r.self, key |-> "", output |-> NoVal, error |-> r.error]
    ELSE [self |-> r.self,
          key |-> CachedNormalizedKey(JoinSpace(r.input_), r.self.stop_words),
          output |-> <<intent_id, r.slots>>, error |-> ""]

_build_io_mapping(self, intent_id, utterance, entity_placeholders) ==
    IoMapping(BuildChunks(self, utterance.data, <<>>, <<>>, entity_placeholders),
              intent_id)

\* the collision rule of fit for one generated pair
Collide(map_, key, val) ==
    IF key \in DOMAIN map_ /\ map_[key] # val
    THEN DictPop(map_, key)
    ELSE DictSet(map_, key, val)

\* the pair r generated for an utterance of the intent, as fit receives it
Generated(intent_name, utterance, r) ==
    [intent_name |-> intent_name, utterance |-> utterance,
     key |-> r.key, output |-> r.output]

\* the utterances of one intent, each pair merged as it is generated;
\* Merge is the body of the loop of fit for the pair r
RECURSIVE FitUtterances(_, _, _, _, _), Merge(_, _, _, _, _)
FitUtterances(self, intent_name, intent_id, utterances, entity_placeholders) ==
    IF utterances = <<>> THEN [self |-> self, error |-> ""]
    ELSE Merge(_build_io_mapping(self, intent_id, Head(utterances),
                                 entity_placeholders),
               intent_name, intent_id, utterances, entity_placeholders)

Merge(r, intent_name, intent_id, utterances, entity_placeholders) ==
    IF r.error # "" THEN [self |-> r.self, error |-> r.error]
    ELSE FitUtterances(
             [r.self EXCEPT
                 !.map = Collide(@, r.key, r.output),
                 !.generated =
                     Append(@, Generated(intent_name, Head(utterances), r))],
             intent_name, intent_id, Tail(utterances), entity_placeholders)

\* generate_io_mapping driven by the loop of fit; i is what get_intent_id
\* returned for the first intent, r how its utterances ended
RECURSIVE generate_io_mapping(_, _, _), IntentUtterances(_, _, _), NextIntent(_, _, _)
generate_io_mapping(self, intents, entity_placeholders) ==
    IF intents = <<>> THEN [self |-> self, error |-> ""]
    ELSE IntentUtterances(get_intent_id(self, Head(intents).name), intents,
                          entity_placeholders)

IntentUtterances(i, intents, entity_placeholders) ==
    NextIntent(FitUtterances(i.self, Head(intents).name, i.id,
                             Head(intents).utterances, entity_placeholders),
               intents, entity_placeholders)

NextIntent(r, intents, entity_placeholders) ==
    IF r.error # "" THEN r
    ELSE generate_io_mapping(r.self, Tail(intents), entity_placeholders)

\* fit on a dataset the validator accepted
fit(self, ds) ==
    generate_io_mapping(
        [self EXCEPT !.language = PyStr(ds.language),
                     !.stop_words = IF self.config.ignore_stop_words
                                    THEN get_stop_words ELSE {},
                     !.map = EmptyDict,
                     !.generated = <<>>],
        ds.intents, _get_entity_placeholders(ds))

\* ------------------------------------------------------------------------
\* parse, get_intents, get_slots
\* ------------------------------------------------------------------------

fitted(self) == self.map # PyNone

\* the slots of zip(slot_ids, entities), appended to slots; a slot id outside
\* the slot registry raises IndexError
RECURSIVE ZipSlots(_, _, _, _, _)
ZipSlots(self, text, slot_ids, entities, slots) ==
    IF slot_ids = <<>> \/ entities = <<>> THEN [slots |-> slots, error |-> ""]
    ELSE IF Head(slot_ids) >= Len(self.slots_names)
    THEN [slots |-> slots, error |-> "IndexError"]
    ELSE ZipSlots(self, text, Tail(slot_ids), Tail(entities),
             Append(slots,
                 unresolved_slot(
                     <<Head(entities).range.start, Head(entities).range.end>>,
                     Slice(text, Head(entities).range.start,
                           Head(entities).range.end),
                     Head(entities).entity_kind,
                     self.slots_names[Head(slot_ids) + 1])))

\* the result for the intent and the zipped slots z
Decoded(text, intent_name, z) ==
    IF z.error # "" THEN Raise(z.error)
    ELSE parsing_result(text, intent_classification_result(intent_name, 1),
                        z.slots)

\* as DecodeEntry, but the count of slot ids and entities is not asserted
DecodeEntryNoAssert(self, text, intent_name, slot_ids, entities, intents) ==
    IF intents # PyNone /\ intent_name \notin Range(intents.value)
    THEN empty_result(text, 1)
    ELSE Decoded(text, intent_name,
                 ZipSlots(self, text, slot_ids, SortByStart(entities), <<>>))

\* parse_map_output for an entry of the map
DecodeEntry(self, text, intent_name, slot_ids, entities, intents) ==
    IF intents # PyNone /\ intent_name \notin Range(intents.value)
    THEN empty_result(text, 1)
    ELSE IF Len(slot_ids) # Len(entities)
    THEN Raise("AssertionError")
    ELSE Decoded(text, intent_name,
                 ZipSlots(self, text, slot_ids, SortByStart(entities), <<>>))

parse_map_output(self, text, output, entities, intents) ==
    IF output = NoVal THEN empty_result(text, 1)
    ELSE DecodeEntry(self, text, self.intents_names[output[1] + 1], output[2],
                     entities, intents)

\* the extraction result of a parsing result, in a list
ExtractionList(res) ==
    [kind |-> "list",
     items |-> <<[intent |-> res.intent, slots |-> res.slots]>>]

\* the end of parse: the result as it is, or as a list when top_n is given
TopN(res, top_n) ==
    IF top_n # PyNone /\ res.kind = "parsing_result"
    THEN ExtractionList(res) ELSE res

\* key of parse: Key A
LookupKey(self, text, all_entities) ==
    CachedKeyA(text, all_entities, self.stop_words)

\* cleaned_text of parse: Key B
CleanedText(self, text) == CachedKeyB(text, self.stop_words)

\* whether first is the empty result parse_map_output gave for an entry
Rejected(val, first) ==
    val # NoVal /\ first.kind = "parsing_result"
                /\ first.intent.intentName = NoneName

\* as the end of Lookup, but an entry the allow-list rejects is retried
RetryKeyB(self, text, intents, val, first) ==
    IF val = NoVal \/ Rejected(val, first)
    THEN parse_map_output(self, text,
             DictGet(self.map, CleanedText(self, text)), <<>>, intents)
    ELSE first

\* as Lookup, but a Key A entry the allow-list rejects falls back to Key B
LookupRetryingKeyB(self, text, all_entities, intents, val) ==
    RetryKeyB(self, text, intents, val,
              parse_map_output(self, text, val, all_entities, intents))

\* the two lookups of parse; val is the entry of Key A
Lookup(self, text, all_entities, intents, val) ==
    IF val = NoVal
    THEN parse_map_output(self, text,
             DictGet(self.map, CleanedText(self, text)), <<>>, intents)
    ELSE parse_map_output(self, text, val, all_entities, intents)

\* parse from the deduplicated entities on
ParseEntities(self, text, all_entities, intents, top_n) ==
    TopN(Lookup(self, text, all_entities, intents,
                DictGet(self.map, LookupKey(self, text, all_entities))),
         top_n)

parse(self, text, entities, intents, top_n) ==
    IF ~fitted(self) THEN Raise("NotTrained")
    ELSE ParseEntities(self, text, deduplicate_overlapping_entities(entities),
                       IF intents.type = "str" THEN PyList(<<intents.value>>)
                       ELSE intents,
                       top_n)

\* the two keys a parse call computes, None when it raises before
ParseKeys(self, text, entities) ==
    IF ~fitted(self) THEN PyNone
    ELSE [key |-> LookupKey(self, text,
                            deduplicate_overlapping_entities(entities)),
          cleaned_text |-> CleanedText(self, text)]

\* [intent_classification_result(x, 0.0) for x in others]
RECURSIVE ZeroIntents(_)
ZeroIntents(others) ==
    IF others = <<>> THEN <<>>
    ELSE <<intent_classification_result(Head(others), 0)>>
             \o ZeroIntents(Tail(others))

\* [x for x in names if x != intent_name]
RECURSIVE Without(_, _)
Without(names, intent_name) ==
    IF names = <<>> THEN <<>>
    ELSE IF Head(names) = intent_name THEN Without(Tail(names), intent_name)
    ELSE <<Head(names)>> \o Without(Tail(names), intent_name)

\* get_intents from the result of parse on
RankedIntents(self, res) ==
    IF res.kind = "error" THEN res
    ELSE IF res.intent = PyNone
    THEN [kind |-> "list",
          items |-> ZeroIntents(self.intents_names)
                        \o <<intent_classification_result(NoneName, 0)>>]
    ELSE [kind |-> "list",
          items |-> <<res.intent>>
                        \o ZeroIntents(Without(self.intents_names,
                                               res.intent.intentName))
                        \o <<intent_classification_result(NoneName, 0)>>]

get_intents(self, text, entities) ==
    IF ~fitted(self) THEN Raise("NotTrained")
    ELSE RankedIntents(self, parse(self, text, entities, PyNone, PyNone))

\* get_slots from the result of parse on
SlotsOf(res) ==
    IF res.kind = "error" THEN res ELSE [kind |-> "list", items |-> res.slots]

get_slots(self, text, entities, intent) ==
    IF ~fitted(self) THEN Raise("NotTrained")
    ELSE IF intent = PyNone THEN [kind |-> "list", items |-> <<>>]
    ELSE IF intent.value \notin Range(self.intents_names)
    THEN Raise("IntentNotFoundError")
    ELSE SlotsOf(parse(self, text, entities, PyList(<<intent.value>>), PyNone))

\* ------------------------------------------------------------------------
\* State
\* ------------------------------------------------------------------------

VARIABLES
    config,            \* the parser configuration: [ignore_stop_words]
    language,          \* self._language
    stop_words,        \* self.stop_words
    map,               \* self.map: None or key -> <<intent id, slot ids>>
    intents_names,     \* self.intents_names
    slots_names,       \* self.slots_names
    _intents_mapping,  \* self._intents_mapping
    _slots_mapping,    \* self._slots_mapping
    fits,              \* number of fit calls so far
    fit_completed,     \* whether some fit call has returned
    dataset,           \* the dataset of the last fit call the validator accepted
    last_fit,          \* how the last fit call ended: "none", "ok", "raised"
    refit,             \* the parser before the last fit, when that fit repeated
                       \* the dataset of a completed fit right before it
    generated,         \* the pairs generate_io_mapping gave the last fit
    op,                \* the call that has just returned or raised, or idle
    result             \* what that call returned or raised

vars == <<config, language, stop_words, map, intents_names, slots_names,
          _intents_mapping, _slots_mapping, fits, fit_completed, dataset,
          last_fit, refit, generated, op, result>>

parser_vars == <<config, language, stop_words, map, intents_names, slots_names,
                 _intents_mapping, _slots_mapping>>

history_vars == <<fits, fit_completed, dataset, last_fit, refit, generated>>

Self ==
    [config |-> config, language |-> language, stop_words |-> stop_words,
     map |-> map, intents_names |-> intents_names, slots_names |-> slots_names,
     _intents_mapping |-> _intents_mapping, _slots_mapping |-> _slots_mapping,
     generated |-> generated]

\* __init__, for either value of config.ignore_stop_words
Init ==
    /\ config \in {[ignore_stop_words |-> b] : b \in BOOLEAN}
    /\ language = PyNone
    /\ stop_words = PyNone
    /\ map = PyNone
    /\ intents_names = <<>>
    /\ slots_names = <<>>
    /\ _intents_mapping = EmptyDict
    /\ _slots_mapping = EmptyDict
    /\ fits = 0
    /\ fit_completed = FALSE
    /\ dataset = PyNone
    /\ last_fit = "none"
    /\ refit = PyNone
    /\ generated = <<>>
    /\ op = [name |-> "idle"]
    /\ result = PyNone

\* the state after fit(d) ended as r: returned (r.error = "") or raised
FitEnds(d, r) ==
    /\ language' = r.self.language
    /\ stop_words' = r.self.stop_words
    /\ map' = r.self.map
    /\ intents_names' = r.self.intents_names
    /\ slots_names' = r.self.slots_names
    /\ _intents_mapping' = r.self._intents_mapping
    /\ _slots_mapping' = r.self._slots_mapping
    /\ fit_completed' = (fit_completed \/ r.error = "")
    /\ last_fit' = IF r.error = "" THEN "ok" ELSE "raised"
    /\ refit' = IF r.error = "" /\ last_fit = "ok" /\ dataset = d
                THEN Self ELSE PyNone
    /\ generated' = r.self.generated
    /\ result' = IF r.error = "" THEN [kind |-> "self"] ELSE Raise(r.error)
    /\ fits' = fits + 1
    /\ dataset' = d
    /\ op' = [name |-> "fit"]
    /\ UNCHANGED config

\* fit(dataset), the dataset accepted by validate_and_format_dataset
Fit ==
    /\ op.name = "idle"
    /\ fits < MaxFits
    /\ \E d \in Datasets : FitEnds(d, fit(Self, d))

\* fit(dataset), validate_and_format_dataset raising
FitInvalid ==
    /\ op.name = "idle"
    /\ fits < MaxFits
    /\ fits' = fits + 1
    /\ last_fit' = "raised"
    /\ refit' = PyNone
    /\ op' = [name |-> "fit"]
    /\ result' = Raise("DatasetFormatError")
    /\ UNCHANGED <<parser_vars, fit_completed, dataset, generated>>

Parse ==
    /\ op.name = "idle"
    /\ \E text \in Texts :
        \E entities \in Detections(text), intents \in IntentsArgs, top_n \in TopNArgs :
            /\ op' = [name |-> "parse", text |-> text, entities |-> entities,
                      intents |-> intents, top_n |-> top_n,
                      keys |-> ParseKeys(Self, text, entities)]
            /\ result' = parse(Self, text, entities, intents, top_n)
            /\ UNCHANGED <<parser_vars, history_vars>>

GetIntents ==
    /\ op.name = "idle"
    /\ \E text \in Texts :
        \E entities \in Detections(text) :
            /\ op' = [name |-> "get_intents", text |-> text, entities |-> entities]
            /\ result' = get_intents(Self, text, entities)
            /\ UNCHANGED <<parser_vars, history_vars>>

GetSlots ==
    /\ op.name = "idle"
    /\ \E text \in Texts :
        \E entities \in Detections(text), intent \in IntentArgs :
            /\ op' = [name |-> "get_slots", text |-> text, entities |-> entities,
                      intent |-> intent]
            /\ result' = get_slots(Self, text, entities, intent)
            /\ UNCHANGED <<parser_vars, history_vars>>

\* the caller takes the result of the call; the parser serves one call at a
\* time
Return ==
    /\ op.name # "idle"
    /\ op' = [name |-> "idle"]
    /\ result' = PyNone
    /\ UNCHANGED <<parser_vars, history_vars>>

Next == Fit \/ FitInvalid \/ Parse \/ GetIntents \/ GetSlots \/ Return

Spec == Init /\ [][Next]_vars

\* ------------------------------------------------------------------------
\* Properties
\* ------------------------------------------------------------------------

\* whether the allow-list of a parse call admits the intent name
Allowed(intents, intent_name) ==
    \/ intents = PyNone
    \/ intents.type = "str" /\ intents.value = intent_name
    \/ intents.type = "list" /\ intent_name \in Range(intents.value)

\* a parse call that got as far as the lookup
Looked == op.name = "parse" /\ op.keys # PyNone

\* the deduplicated entities of the parse call
AllEntities == deduplicate_overlapping_entities(op.entities)

\* the entry of the first key of the parse call that is in the map
FirstHit ==
    IF op.keys.key \in DOMAIN map THEN map[op.keys.key]
    ELSE DictGet(map, op.keys.cleaned_text)

\* the result parse gives for no match
NoMatch == TopN(empty_result(op.text, 1), op.top_n)

NoDuplicates(seq) == \A i, j \in 1..Len(seq) : i # j => seq[i] # seq[j]

\* the keys for which the last fit generated two different outputs
AmbiguousKeys ==
    {generated[i].key : i \in {i \in 1..Len(generated) :
        \E j \in 1..Len(generated) :
            /\ generated[j].key = generated[i].key
            /\ generated[j].output # generated[i].output}}

\* C1: after a fit, a key for which two training utterances generated
\* different outputs is absent from the map, also when the outputs were
\* v, w, v, and a parse whose keys are such keys yields no match.
C1_AmbiguousKeyAbsent ==
    last_fit = "ok" =>
        /\ AmbiguousKeys \cap DOMAIN map = {}
        /\ (Looked /\ {op.keys.key, op.keys.cleaned_text} \subseteq AmbiguousKeys)
               => result = NoMatch

\* a fit that generated v, w, v for one key has returned and the key is in
\* the map
C1_KeyRestored ==
    /\ op.name = "fit" /\ last_fit = "ok"
    /\ \E i, j, k \in 1..Len(generated) :
          /\ i < j /\ j < k
          /\ generated[i].key = generated[j].key
          /\ generated[j].key = generated[k].key
          /\ generated[i].output # generated[j].output
          /\ generated[i].output = generated[k].output
          /\ generated[i].key \in DOMAIN map

IsSlotChunk(chunk) == "slot_name" \in DOMAIN chunk

\* the text of a training utterance, every slot chunk standing for its value
UtteranceText(utterance) ==
    Join([i \in 1..Len(utterance.data) |-> utterance.data[i].text])

\* one span per slot chunk of the utterance, of the entity kind of the chunk
RECURSIVE UtteranceEntities(_, _, _)
UtteranceEntities(text, chunks, at) ==
    IF chunks = <<>> THEN <<>>
    ELSE IF IsSlotChunk(Head(chunks))
    THEN <<Entity(text, Head(chunks).entity, at, at + Len(Head(chunks).text))>>
             \o UtteranceEntities(text, Tail(chunks), at + Len(Head(chunks).text))
    ELSE UtteranceEntities(text, Tail(chunks), at + Len(Head(chunks).text))

\* the slots the utterance stands for: one per slot chunk, in text order
RECURSIVE UtteranceSlots(_, _, _)
UtteranceSlots(text, chunks, at) ==
    IF chunks = <<>> THEN <<>>
    ELSE IF IsSlotChunk(Head(chunks))
    THEN <<unresolved_slot(<<at, at + Len(Head(chunks).text)>>,
                           Slice(text, at, at + Len(Head(chunks).text)),
                           Head(chunks).entity, Head(chunks).slot_name)>>
             \o UtteranceSlots(text, Tail(chunks), at + Len(Head(chunks).text))
    ELSE UtteranceSlots(text, Tail(chunks), at + Len(Head(chunks).text))

\* the parse call is the parse of the training utterance g of the last fit
ParsesUtterance(g) ==
    /\ op.name = "parse" /\ last_fit = "ok"
    /\ op.intents = PyNone /\ op.top_n = PyNone
    /\ g.key \in DOMAIN map
    /\ op.text = UtteranceText(g.utterance)
    /\ op.entities = UtteranceEntities(op.text, g.utterance.data, 0)

\* C2: after a fit, the parse of a training utterance whose key is in the
\* map, the detectors reporting one span per slot chunk, returns the intent
\* of the utterance with probability 1.0 and one slot per chunk, carrying the
\* slot name of the chunk, the entity kind, the range and the value.
C2_TrainingUtteranceParses ==
    \A i \in 1..Len(generated) :
        ParsesUtterance(generated[i]) =>
            result = parsing_result(op.text,
                         intent_classification_result(generated[i].intent_name, 1),
                         UtteranceSlots(op.text, generated[i].utterance.data, 0))

\* the parse of a training utterance whose key is in the map raised
C2_TrainingUtteranceRaises ==
    \E i \in 1..Len(generated) :
        ParsesUtterance(generated[i]) /\ result.kind = "error"

\* C3: a second fit with the dataset of the fit before it leaves the map
\* and both registries as they were, and get_intents and parse answer as
\* before.
C3_FitIdempotent ==
    (op.name = "fit" /\ refit # PyNone) =>
        /\ map = refit.map
        /\ intents_names = refit.intents_names
        /\ slots_names = refit.slots_names
        /\ \A text \in Texts : \A entities \in Detections(text) :
              /\ get_intents(Self, text, entities) = get_intents(refit, text, entities)
              /\ parse(Self, text, entities, PyNone, PyNone)
                     = parse(refit, text, entities, PyNone, PyNone)

\* a fit repeated the dataset of the fit before it and the intent registry
\* has grown
C3_RegistryGrown ==
    /\ op.name = "fit" /\ refit # PyNone
    /\ Len(intents_names) > Len(refit.intents_names)

\* C4: while no fit call has completed, the map is null and parse,
\* get_intents and get_slots raise NotTrained, also after a fit call that
\* failed part-way.
C4_NotTrainedUntilFitCompletes ==
    ~fit_completed =>
        /\ map = PyNone
        /\ op.name \in {"parse", "get_intents", "get_slots"}
               => result = Raise("NotTrained")

\* no fit call has completed and a parse call returned a result
C4_AnswersAfterFailedFit ==
    /\ ~fit_completed /\ last_fit = "raised"
    /\ op.name = "parse" /\ result.kind = "parsing_result"

\* the parse call resolves through Key B: Key A is not in the map, Key B is,
\* and the allow-list admits the intent
ThroughKeyB ==
    /\ Looked
    /\ op.keys.key \notin DOMAIN map
    /\ op.keys.cleaned_text \in DOMAIN map
    /\ Allowed(op.intents, intents_names[map[op.keys.cleaned_text][1] + 1])

\* C5: a parse that resolves through Key B returns the intent of the entry
\* with probability 1.0 and an empty slot list, whatever entities were
\* detected and whatever slot ids the entry holds.
C5_KeyBEmptySlots ==
    ThroughKeyB =>
        result = TopN(parsing_result(op.text,
                          intent_classification_result(
                              intents_names[map[op.keys.cleaned_text][1] + 1], 1),
                          <<>>),
                      op.top_n)

\* a parse resolved through Key B to an entry that holds slot ids, and raised
C5_KeyBRaises ==
    /\ ThroughKeyB
    /\ map[op.keys.cleaned_text][2] # <<>>
    /\ result = Raise("AssertionError")

\* the names of a list of intent classification results
IntentNamesOf(items) == [i \in 1..Len(items) |-> items[i].intentName]

\* C6: get_intents on a fitted parser returns |known intents| + 1 entries:
\* the matched intent, if any, first with probability 1.0, every other known
\* intent once with probability 0.0, and the None intent last with
\* probability 0.0.
C6_RankedIntents ==
    (op.name = "get_intents" /\ result.kind = "list") =>
        /\ Len(result.items) = Cardinality(Range(intents_names)) + 1
        /\ NoDuplicates(IntentNamesOf(result.items))
        /\ Range(IntentNamesOf(result.items)) = Range(intents_names) \cup {NoneName}
        /\ result.items[Len(result.items)] = intent_classification_result(NoneName, 0)
        /\ \A i \in 2..Len(result.items) : result.items[i].probability = 0
        /\ result.items[1].probability = 1 => result.items[1].intentName # NoneName

\* get_intents matched an intent and lists another intent twice
C6_IntentListedTwice ==
    /\ op.name = "get_intents" /\ result.kind = "list"
    /\ result.items[1].probability = 1 /\ result.items[1].intentName # NoneName
    /\ ~NoDuplicates(IntentNamesOf(result.items))

\* C7: when the first key of a parse call that is in the map (Key A, or Key B
\* if Key A is absent) resolves to an intent the allow-list does not admit,
\* the result is the empty result with probability 1.0: the other key is not
\* tried.
C7_AllowListShortCircuits ==
    (Looked /\ FirstHit # NoVal
            /\ ~Allowed(op.intents, intents_names[FirstHit[1] + 1]))
        => result = NoMatch

\* Key A hit an entry the allow-list rejected while Key B is in the map with
\* an intent the allow-list admits, and the result is the empty result
C7_KeyBNotTried ==
    /\ Looked /\ result = NoMatch
    /\ op.keys.key \in DOMAIN map
    /\ ~Allowed(op.intents, intents_names[map[op.keys.key][1] + 1])
    /\ op.keys.cleaned_text \in DOMAIN map
    /\ Allowed(op.intents, intents_names[map[op.keys.cleaned_text][1] + 1])

\* the parse call hits the map through Key A
KeyAHit == Looked /\ op.keys.key \in DOMAIN map

\* the slots of the result of a parse call that returned
ResultSlots ==
    IF result.kind = "list" THEN result.items[1].slots ELSE result.slots

\* C8 as stated: a parse call that hits the map through Key A with a number
\* of slot ids that differs from the number of deduplicated entities raises
\* AssertionError.
C8_MismatchAlwaysAsserts ==
    (KeyAHit /\ Len(map[op.keys.key][2]) # Len(AllEntities))
        => result = Raise("AssertionError")

\* C8: a parse call that hits the map through Key A with an intent the
\* allow-list admits raises AssertionError when the number of slot ids
\* differs from the number of deduplicated entities, and otherwise raises or
\* returns exactly one slot per slot id.
C8_MismatchAssertsWhenAllowed ==
    (KeyAHit /\ Allowed(op.intents, intents_names[map[op.keys.key][1] + 1])) =>
        IF Len(map[op.keys.key][2]) # Len(AllEntities)
        THEN result = Raise("AssertionError")
        ELSE \/ result = Raise("IndexError")
             \/ /\ result.kind # "error"
                /\ Len(ResultSlots) = Len(map[op.keys.key][2])

\* Key A hit an entry with an admitted intent and more slot ids than
\* entities, and the call raised AssertionError
C8_MismatchAsserted ==
    /\ KeyAHit
    /\ Allowed(op.intents, intents_names[map[op.keys.key][1] + 1])
    /\ Len(map[op.keys.key][2]) > Len(AllEntities)
    /\ result = Raise("AssertionError")

\* the lower-cased concatenation of the light tokens of each text
LiteralKeys ==
    [i \in 1..Len(KeyBInputs) |-> Lower(Join(tokenize_light(KeyBInputs[i][1])))]

\* the same without the tokens that are stop words
LiteralKeysWithoutStopWords ==
    [i \in 1..Len(KeyBInputs) |->
        Lower(Join(DropStopWords(tokenize_light(KeyBInputs[i][1]),
                                 KeyBInputs[i][2])))]

\* C9 as stated: Key B is the lower-cased concatenation of all light tokens
\* of the text, stop words included.
C9_KeyBKeepsStopWords ==
    Looked =>
        op.keys.cleaned_text
            = Cached(KeyBInputs, LiteralKeys, <<op.text, stop_words>>, "")

\* C9: Key B is the lower-cased concatenation of the light tokens of the raw
\* text that are not stop words of the parser, whatever entities were
\* detected in the text.
C9_KeyBDropsStopWords ==
    Looked =>
        op.keys.cleaned_text
            = Cached(KeyBInputs, LiteralKeysWithoutStopWords,
                     <<op.text, stop_words>>, "")

\* a parse with stop words of a text that holds one, an entity detected in it
C9_StopWordDropped ==
    /\ Looked /\ stop_words # {} /\ op.entities # <<>>
    /\ op.text = "go the rome"
    /\ op.keys.cleaned_text = "gorome"
    /\ op.keys.key # op.keys.cleaned_text

\* the slot names of the slot chunks of an utterance
RECURSIVE SlotNamesOf(_)
SlotNamesOf(chunks) ==
    IF chunks = <<>> THEN <<>>
    ELSE IF IsSlotChunk(Head(chunks))
    THEN <<Head(chunks).slot_name>> \o SlotNamesOf(Tail(chunks))
    ELSE SlotNamesOf(Tail(chunks))

\* the ids of the generated pair g are the positions of its names
Decodes(g) ==
    /\ g.output[1] < Len(intents_names)
    /\ intents_names[g.output[1] + 1] = g.intent_name
    /\ \A k \in 1..Len(g.output[2]) :
          /\ g.output[2][k] < Len(slots_names)
          /\ slots_names[g.output[2][k] + 1] = SlotNamesOf(g.utterance.data)[k]

\* C10: after any fit calls each intent name and each slot name occurs once
\* in its registry, and every id handed out by the last fit is the position
\* of the name it was handed out for, also when a slot is named as an intent.
C10_RegistriesOrdinal ==
    /\ NoDuplicates(intents_names)
    /\ NoDuplicates(slots_names)
    /\ last_fit = "ok" => \A i \in 1..Len(generated) : Decodes(generated[i])

\* a first fit handed a slot named as its intent an id that is not the
\* position of the slot name
C10_SlotTakesIntentId ==
    /\ op.name = "fit" /\ last_fit = "ok" /\ fits = 1
    /\ \E i \in 1..Len(generated) :
          /\ generated[i].intent_name \in Range(SlotNamesOf(generated[i].utterance.data))
          /\ ~Decodes(generated[i])

====
